---- MODULE Spec2Model ----
(***************************************************************************)
(* Model of tesla_charger_alphaess.py: the control loop charge_loop, the   *)
(* charge target TeslaEv (get_charge_state, is_able_to_charge,             *)
(* calculate_charger_amps_request, report_and_change_charge_rate) and the  *)
(* power source AlphaEssInverter.available_watts.                          *)
(*                                                                         *)
(* The vehicle and the inverter are the environment: every remote read     *)
(* returns any value of a bounded set, or fails with the exception type    *)
(* the code's own except clauses name for it (HTTPError for                *)
(* get_vehicle_data, VehicleError for sync_wake_up and command).           *)
(* Wall-clock sleeps are not modelled beyond the chosen loop_sleep_time.   *)
(***************************************************************************)
EXTENDS Integers, Sequences, FiniteSets, TLC

VARIABLES
    pc,                          \* position of the single thread of control
    inverter_power_max,          \* AlphaEssInverter.inverter_power_max (watts)
    battery_charging_factor,     \* available_watts parameter, <<numerator, denominator>>
    last_power,                  \* available_watts local: the telemetry just read
    avail,                       \* charge_loop local: last value of available_watts
    available_watts_recent,      \* charge_loop local: smoothing window, newest first
    ev_error_count_consecutive,  \* charge_loop local
    result,                      \* charge_loop local
    loop_sleep_time,             \* charge_loop local
    amps_delta,                  \* charge_loop local
    charge_state,                \* report_and_change_charge_rate local
    charger_amps_request,        \* report_and_change_charge_rate local
    attempts_count,              \* get_charge_state local
    last_exception,              \* get_charge_state local: status code, 0 for None
    cmds,                        \* history: remote commands issued by the current call
    outcome,                     \* history: how this iteration's call or poll ended
    failStreak,                  \* history: consecutive failed calls
    pollsSince,                  \* history: polls since the last call ended, capped
    del_pc,                      \* position inside TeslaEv.__del__
    del_cmds,                    \* history: remote commands issued by __del__
    tesla_client                 \* TeslaEv.tesla_client: the session, open or closed

vars == <<pc, inverter_power_max, battery_charging_factor, last_power, avail,
          available_watts_recent, ev_error_count_consecutive, result,
          loop_sleep_time, amps_delta, charge_state, charger_amps_request,
          attempts_count, last_exception, cmds, outcome, failStreak,
          pollsSince, del_pc, del_cmds, tesla_client>>

loopVars == <<available_watts_recent, ev_error_count_consecutive, result,
              loop_sleep_time, amps_delta, avail>>
inverterVars == <<inverter_power_max, battery_charging_factor, last_power>>
frameVars == <<charge_state, charger_amps_request, attempts_count, last_exception>>
delVars == <<del_pc, del_cmds, tesla_client>>

----------------------------------------------------------------------------
(* Bounds of the model *)

\* charger currents reported by the vehicle range over 0..MaxAmps
MaxAmps == 2
\* grid export seen by the loop ranges over 0..MaxFeedUnits steps of inverter_volts
MaxFeedUnits == 1
\* deltas tried on calculate_charger_amps_request range over -MaxDelta..MaxDelta
MaxDelta == 4
\* telemetry tried on available_watts ranges over +-MaxWattUnits steps of inverter_volts
MaxWattUnits == 2

(* Program constants *)

charge_amps_min == 1
attempts_max == 3
inverter_volts == 240
loop_delay_active_charging == 60
loop_delay_charge_change_settle == 90
loop_delay_ev_charged == 7200
charging_sample_count == 3
ev_error_count_max == 5

Min(a, b) == IF a < b THEN a ELSE b

RECURSIVE Sum(_)
Sum(s) == IF s = <<>> THEN 0 ELSE Head(s) + Sum(Tail(s))

----------------------------------------------------------------------------
(* AlphaEssInverter.available_watts *)

CreditFactors == {<<0, 1>>, <<1, 2>>, <<1, 1>>}

NoPower == [pbat |-> 0, pmeterL1 |-> 0, pload |-> 0]

\* the two battery branches the other way round
raw_available_watts_SignSwapped(feed_in, battery_charging, factor) ==
    IF battery_charging >= 0
    THEN feed_in + battery_charging
    ELSE feed_in + (battery_charging * factor[1]) \div factor[2]

\* lines 261-265; factor is the fraction factor[1] / factor[2]
raw_available_watts(feed_in, battery_charging, factor) ==
    IF battery_charging < 0
    THEN feed_in + battery_charging
    ELSE feed_in + (battery_charging * factor[1]) \div factor[2]

\* without the min of line 269
available_watts_Unclamped(lp, power_max, factor) ==
    raw_available_watts(-1 * lp.pmeterL1, -1 * lp.pbat, factor)

\* lines 255-272
available_watts(lp, power_max, factor) ==
    LET battery_charging == -1 * lp.pbat
        feed_in == -1 * lp.pmeterL1
        inverter_load == lp.pload
    IN  Min(raw_available_watts(feed_in, battery_charging, factor),
            power_max - inverter_load)

----------------------------------------------------------------------------
(* TeslaEv *)

NoChargeState ==
    [charger_actual_current |-> 0, charge_current_request_max |-> 0,
     charging_state |-> "none", not_enough_power_to_heat |-> "None",
     charge_port_latch |-> "none", charge_port_door_open |-> "False"]

\* what get_vehicle_data can report; Python's None, True and False are
\* written as the strings an f-string renders them to
ChargeStates ==
    [charger_actual_current : 0..MaxAmps,
     charge_current_request_max : 0..MaxAmps,
     charging_state : {"Charging", "Stopped", "Charged", "Disconnected"},
     not_enough_power_to_heat : {"None", "True"},
     charge_port_latch : {"Engaged", "Disengaged"},
     charge_port_door_open : {"True", "False"}]

\* HTTP status codes get_charge_state tells apart, and one it does not
StatusCodes == {408, 429, 500}

\* lines 107-110 in the other order: the door is looked at before the latch
is_able_to_charge_DoorFirst(cs) ==
    IF cs.not_enough_power_to_heat # "None"
    THEN "not_enough_power_to_heat : " \o cs.not_enough_power_to_heat
    ELSE IF cs.charge_port_door_open # "True"
    THEN "charge_port_door_open : " \o cs.charge_port_door_open
    ELSE IF cs.charge_port_latch # "Engaged"
    THEN "charge_port_latch : " \o cs.charge_port_latch
    ELSE "None"

\* lines 100-111; "None" stands for the None return
is_able_to_charge(cs) ==
    IF cs.not_enough_power_to_heat # "None"
    THEN "not_enough_power_to_heat : " \o cs.not_enough_power_to_heat
    ELSE IF cs.charge_port_latch # "Engaged"
    THEN "charge_port_latch : " \o cs.charge_port_latch
    ELSE IF cs.charge_port_door_open # "True"
    THEN "charge_port_door_open : " \o cs.charge_port_door_open
    ELSE "None"

\* without lines 138-144
calculate_charger_amps_request_NoMaxClamp(delta, cs) ==
    LET amps_request == cs.charger_actual_current + delta
    IN  IF amps_request < 0 THEN 0
        ELSE IF amps_request < charge_amps_min THEN 0 ELSE amps_request

\* lines 127-145
calculate_charger_amps_request(delta, cs) ==
    LET amps_request == cs.charger_actual_current + delta
        validated == IF amps_request < 0 THEN 0
                     ELSE IF amps_request < charge_amps_min THEN 0
                     ELSE amps_request
        charge_current_request_max == cs.charge_current_request_max
    IN  IF validated > charge_current_request_max
        THEN charge_current_request_max
        ELSE validated

----------------------------------------------------------------------------
(* charge_loop: helpers *)

\* without line 310
WindowInsert_NoTruncate(w, a) == <<a>> \o w

\* lines 309-310: np.insert at index 0, then keep the first charging_sample_count
WindowInsert(w, a) ==
    SubSeq(<<a>> \o w, 1, Min(Len(w) + 1, charging_sample_count))

\* lines 314-316: floor(average(window) / volts), with exact integer arithmetic
AmpsDelta(w) == Sum(w) \div (Len(w) * inverter_volts)

\* line 313
WindowReady(res, w) == res = "unset" \/ Len(w) = charging_sample_count

\* line 321 with != in place of >
ShouldAct_StoppedOnAnyChange(res, delta) ==
    \/ res = "unset"
    \/ (res = "Charging" /\ delta # 0)
    \/ (res = "Stopped" /\ delta # 0)

\* lines 318-322 with a branch that calls again while Charged
ShouldAct_ChargedRechecks(res, delta) ==
    \/ res = "unset"
    \/ (res = "Charging" /\ delta # 0)
    \/ (res = "Stopped" /\ delta > 0)
    \/ (res = "Charged" /\ delta # 0)

\* lines 318-322
ShouldAct(res, delta) ==
    \/ res = "unset"
    \/ (res = "Charging" /\ delta # 0)
    \/ (res = "Stopped" /\ delta > 0)

\* line 306 with <= in place of <
LoopCondition_OffByOne(count) == count <= ev_error_count_max

\* line 306
LoopCondition(count) == count < ev_error_count_max

\* telemetry the loop's polls can read: the battery charging, idle or
\* discharging by one step, the grid meter exporting, the load idle or heavy
LoopTelemetry ==
    [pbat : {-1 * inverter_volts, 0, inverter_volts},
     pmeterL1 : {-1 * k * inverter_volts : k \in 0..MaxFeedUnits},
     pload : {0, 2 * inverter_volts}]

\* the inverter rating private_async_init reads for the loop's runs
LoopRating == (MaxFeedUnits + 1) * inverter_volts

InCall == pc \in {"fetch", "check", "wake", "set_amps", "start", "stop"}

----------------------------------------------------------------------------
(* charge_loop: how a call of report_and_change_charge_rate ends *)

\* without line 326
Return_KeepWindow(val) ==
    /\ result' = val
    /\ loop_sleep_time' = loop_delay_charge_change_settle
    /\ ev_error_count_consecutive' = 0
    /\ outcome' = "return"
    /\ failStreak' = 0
    /\ pollsSince' = 0
    /\ pc' = "select"
    /\ UNCHANGED <<available_watts_recent, amps_delta, avail>>

\* lines 324-327: the call returned val
Return(val) ==
    /\ result' = val
    /\ loop_sleep_time' = loop_delay_charge_change_settle
    /\ available_watts_recent' = <<>>
    /\ ev_error_count_consecutive' = 0
    /\ outcome' = "return"
    /\ failStreak' = 0
    /\ pollsSince' = 0
    /\ pc' = "select"
    /\ UNCHANGED <<amps_delta, avail>>

\* without line 331
RaiseVehicleError_NotCounted ==
    /\ outcome' = "VehicleError"
    /\ failStreak' = failStreak + 1
    /\ pollsSince' = 0
    /\ pc' = "select"
    /\ UNCHANGED <<ev_error_count_consecutive, result, loop_sleep_time,
                   available_watts_recent, amps_delta, avail>>

\* lines 328-332: the call raised VehicleError
RaiseVehicleError ==
    /\ ev_error_count_consecutive' = ev_error_count_consecutive + 1
    /\ outcome' = "VehicleError"
    /\ failStreak' = failStreak + 1
    /\ pollsSince' = 0
    /\ pc' = "select"
    /\ UNCHANGED <<result, loop_sleep_time, available_watts_recent, amps_delta, avail>>

\* line 172 seen from line 324: HTTPError is no VehicleError, so no handler of
\* charge_loop or main takes it and the exception ends the run
RaiseHTTPError ==
    /\ outcome' = "HTTPError"
    /\ failStreak' = failStreak + 1
    /\ pollsSince' = 0
    /\ pc' = "crashed"
    /\ UNCHANGED loopVars

----------------------------------------------------------------------------
(* charge_loop *)

Init ==
    /\ pc = "test"
    /\ inverter_power_max = LoopRating
    /\ battery_charging_factor = <<0, 1>>
    /\ last_power = NoPower
    /\ avail = 0
    /\ available_watts_recent = <<>>
    /\ ev_error_count_consecutive = 0
    /\ result = "unset"
    /\ loop_sleep_time = 0
    /\ amps_delta = 0
    /\ charge_state = NoChargeState
    /\ charger_amps_request = 0
    /\ attempts_count = 0
    /\ last_exception = 0
    /\ cmds = <<>>
    /\ outcome = "none"
    /\ failStreak = 0
    /\ pollsSince = 0
    /\ del_pc = "idle"
    /\ del_cmds = <<>>
    /\ tesla_client = "open"

\* lines 306-307
LoopTest ==
    /\ pc = "test"
    /\ IF LoopCondition(ev_error_count_consecutive)
       THEN /\ pc' = "poll"
            /\ loop_sleep_time' = loop_delay_active_charging
       ELSE /\ pc' = "exited"
            /\ UNCHANGED loop_sleep_time
    /\ UNCHANGED <<available_watts_recent, ev_error_count_consecutive, result,
                   amps_delta, avail, cmds, outcome, failStreak, pollsSince>>
    /\ UNCHANGED inverterVars
    /\ UNCHANGED frameVars
    /\ UNCHANGED delVars

\* line 308 into line 252: the telemetry read answers
GetLastPowerData ==
    /\ pc = "poll"
    /\ \E lp \in LoopTelemetry : last_power' = lp
    /\ pc' = "compute"
    /\ UNCHANGED <<inverter_power_max, battery_charging_factor, cmds, outcome, failStreak, pollsSince>>
    /\ UNCHANGED loopVars
    /\ UNCHANGED frameVars
    /\ UNCHANGED delVars

\* line 252: the telemetry read fails; nothing in charge_loop or main handles it
GetLastPowerDataFails ==
    /\ pc = "poll"
    /\ pc' = "crashed"
    /\ outcome' = "DataUnavailable"
    /\ UNCHANGED <<cmds, failStreak, pollsSince>>
    /\ UNCHANGED inverterVars
    /\ UNCHANGED loopVars
    /\ UNCHANGED frameVars
    /\ UNCHANGED delVars

\* lines 253-272 and 308-311; the telemetry stays readable until Decide drops it
AvailableWatts ==
    /\ pc = "compute"
    /\ avail' = available_watts(last_power, inverter_power_max, battery_charging_factor)
    /\ available_watts_recent' = WindowInsert(available_watts_recent, avail')
    /\ pc' = "decide"
    /\ pollsSince' = Min(pollsSince + 1, charging_sample_count)
    /\ UNCHANGED <<ev_error_count_consecutive, result, loop_sleep_time, amps_delta,
                   cmds, outcome, failStreak>>
    /\ UNCHANGED inverterVars
    /\ UNCHANGED frameVars
    /\ UNCHANGED delVars

\* lines 313-322, and line 324 up to the entry of get_charge_state (lines 149-150)
Decide ==
    /\ pc = "decide"
    /\ IF WindowReady(result, available_watts_recent)
       THEN /\ amps_delta' = AmpsDelta(available_watts_recent)
            /\ IF ShouldAct(result, amps_delta')
               THEN /\ pc' = "fetch"
                    /\ outcome' = "pending"
                    /\ attempts_count' = 0
                    /\ last_exception' = 0
               ELSE /\ pc' = "select"
                    /\ UNCHANGED <<outcome, attempts_count, last_exception>>
       ELSE /\ pc' = "sleep"
            /\ UNCHANGED <<amps_delta, outcome, attempts_count, last_exception>>
    /\ last_power' = NoPower
    /\ UNCHANGED <<available_watts_recent, ev_error_count_consecutive, result,
                   loop_sleep_time, avail, charge_state, charger_amps_request,
                   cmds, failStreak, pollsSince, inverter_power_max,
                   battery_charging_factor>>
    /\ UNCHANGED delVars

\* lines 340-342 without the break: an unknown result sleeps like Charging
Select_NoBreak ==
    /\ pc = "select"
    /\ loop_sleep_time' = IF result = "Charged" THEN loop_delay_ev_charged
                          ELSE loop_delay_active_charging
    /\ pc' = "sleep"
    /\ UNCHANGED <<available_watts_recent, ev_error_count_consecutive, result,
                   amps_delta, avail, cmds, outcome, failStreak, pollsSince>>
    /\ UNCHANGED inverterVars
    /\ UNCHANGED frameVars
    /\ UNCHANGED delVars

\* lines 333-342
Select ==
    /\ pc = "select"
    /\ IF result = "Charged"
       THEN /\ loop_sleep_time' = loop_delay_ev_charged
            /\ pc' = "sleep"
       ELSE IF result = "Stopped" \/ result = "Charging"
       THEN /\ loop_sleep_time' = loop_delay_active_charging
            /\ pc' = "sleep"
       ELSE /\ pc' = "exited"
            /\ UNCHANGED loop_sleep_time
    /\ UNCHANGED <<available_watts_recent, ev_error_count_consecutive, result,
                   amps_delta, avail, cmds, outcome, failStreak, pollsSince>>
    /\ UNCHANGED inverterVars
    /\ UNCHANGED frameVars
    /\ UNCHANGED delVars

\* lines 344-345; the finished call's frame and this iteration's history end here
Sleep ==
    /\ pc = "sleep"
    /\ pc' = "test"
    /\ charge_state' = NoChargeState
    /\ charger_amps_request' = 0
    /\ attempts_count' = 0
    /\ last_exception' = 0
    /\ cmds' = <<>>
    /\ outcome' = "none"
    /\ UNCHANGED <<failStreak, pollsSince>>
    /\ UNCHANGED loopVars
    /\ UNCHANGED inverterVars
    /\ UNCHANGED delVars

----------------------------------------------------------------------------
(* TeslaEv.get_charge_state, called from line 178 *)

Wake == <<"sync_wake_up", 0>>
SetAmps(amps) == <<"CHARGING_AMPS", amps>>
StartCharge == <<"START_CHARGE", 0>>
StopCharge == <<"STOP_CHARGE", 0>>

\* lines 151-155: an attempt that succeeds
GetChargeStateOk ==
    /\ pc = "fetch"
    /\ attempts_count < attempts_max
    /\ attempts_count' = attempts_count + 1
    /\ \E cs \in ChargeStates : charge_state' = cs
    /\ pc' = "check"
    /\ UNCHANGED <<charger_amps_request, last_exception, cmds, outcome, failStreak, pollsSince>>
    /\ UNCHANGED loopVars
    /\ UNCHANGED inverterVars
    /\ UNCHANGED delVars

\* line 165 taken for a second wake branch: 429 wakes the vehicle as well
GetChargeStateHTTPError_WakeOn429 ==
    /\ pc = "fetch"
    /\ attempts_count < attempts_max
    /\ attempts_count' = attempts_count + 1
    /\ \E status_code \in StatusCodes :
          /\ last_exception' = status_code
          /\ cmds' = IF status_code \in {408, 429} THEN Append(cmds, Wake) ELSE cmds
    /\ UNCHANGED <<pc, charge_state, charger_amps_request, outcome, failStreak, pollsSince>>
    /\ UNCHANGED loopVars
    /\ UNCHANGED inverterVars
    /\ UNCHANGED delVars

\* lines 151-171: an attempt that fails with HTTPError; on 408 the wake succeeds
GetChargeStateHTTPError ==
    /\ pc = "fetch"
    /\ attempts_count < attempts_max
    /\ attempts_count' = attempts_count + 1
    /\ \E status_code \in StatusCodes :
          /\ last_exception' = status_code
          /\ cmds' = IF status_code = 408 THEN Append(cmds, Wake) ELSE cmds
    /\ UNCHANGED <<pc, charge_state, charger_amps_request, outcome, failStreak, pollsSince>>
    /\ UNCHANGED loopVars
    /\ UNCHANGED inverterVars
    /\ UNCHANGED delVars

\* lines 151-163: an attempt that fails with 408, and the wake raises VehicleError,
\* which leaves get_charge_state and report_and_change_charge_rate
GetChargeStateWakeFails ==
    /\ pc = "fetch"
    /\ attempts_count < attempts_max
    /\ attempts_count' = attempts_count + 1
    /\ last_exception' = 408
    /\ RaiseVehicleError
    /\ UNCHANGED <<charge_state, charger_amps_request, cmds>>
    /\ UNCHANGED inverterVars
    /\ UNCHANGED delVars

\* lines 151 and 172: the attempts are used up, the last exception is raised
GetChargeStateExhausted ==
    /\ pc = "fetch"
    /\ ~(attempts_count < attempts_max)
    /\ RaiseHTTPError
    /\ UNCHANGED cmds
    /\ UNCHANGED frameVars
    /\ UNCHANGED inverterVars
    /\ UNCHANGED delVars

----------------------------------------------------------------------------
(* TeslaEv.report_and_change_charge_rate *)

\* without lines 194-196
RateUnchanged_Never(actual, request) == FALSE

\* line 194
RateUnchanged(actual, request) == actual = request

\* lines 179-198
CheckState ==
    /\ pc = "check"
    /\ LET reason == is_able_to_charge(charge_state)
           request == calculate_charger_amps_request(amps_delta, charge_state)
           charger_actual_amps == charge_state.charger_actual_current
       IN  IF reason # "None"
           THEN Return(reason) /\ UNCHANGED charger_amps_request
           ELSE IF charge_state.charging_state = "Charged"
           THEN Return(charge_state.charging_state) /\ UNCHANGED charger_amps_request
           ELSE /\ charger_amps_request' = request
                /\ IF RateUnchanged(charger_actual_amps, request)
                   THEN Return(charge_state.charging_state)
                   ELSE /\ pc' = "wake"
                        /\ UNCHANGED <<outcome, failStreak, pollsSince>>
                        /\ UNCHANGED loopVars
    /\ UNCHANGED <<charge_state, attempts_count, last_exception, cmds>>
    /\ UNCHANGED inverterVars
    /\ UNCHANGED delVars

\* line 199
WakeUp ==
    /\ pc = "wake"
    /\ \/ /\ cmds' = Append(cmds, Wake)
          /\ pc' = "set_amps"
          /\ UNCHANGED <<outcome, failStreak, pollsSince>>
          /\ UNCHANGED loopVars
       \/ /\ RaiseVehicleError
          /\ UNCHANGED cmds
    /\ UNCHANGED frameVars
    /\ UNCHANGED inverterVars
    /\ UNCHANGED delVars

\* without the test of line 204
AfterSetAmps_StartAlways(request, actual) ==
    IF request = 0 THEN "stop" ELSE "start"

\* lines 201-206: what follows the CHARGING_AMPS command
AfterSetAmps(request, actual) ==
    IF request = 0 THEN "stop"
    ELSE IF actual = 0 THEN "start"
    ELSE "return"

\* lines 200-206
SetChargingAmps ==
    /\ pc = "set_amps"
    /\ \/ /\ cmds' = Append(cmds, SetAmps(charger_amps_request))
          /\ LET next == AfterSetAmps(charger_amps_request,
                                      charge_state.charger_actual_current)
             IN  IF next = "return"
                 THEN Return("Charging")
                 ELSE /\ pc' = next
                      /\ UNCHANGED <<outcome, failStreak, pollsSince>>
                      /\ UNCHANGED loopVars
       \/ /\ RaiseVehicleError
          /\ UNCHANGED cmds
    /\ UNCHANGED frameVars
    /\ UNCHANGED inverterVars
    /\ UNCHANGED delVars

\* lines 202-203
StopCommand ==
    /\ pc = "stop"
    /\ \/ /\ cmds' = Append(cmds, StopCharge)
          /\ Return("Stopped")
       \/ /\ RaiseVehicleError
          /\ UNCHANGED cmds
    /\ UNCHANGED frameVars
    /\ UNCHANGED inverterVars
    /\ UNCHANGED delVars

\* lines 205-206
StartCommand ==
    /\ pc = "start"
    /\ \/ /\ cmds' = Append(cmds, StartCharge)
          /\ Return("Charging")
       \/ /\ RaiseVehicleError
          /\ UNCHANGED cmds
    /\ UNCHANGED frameVars
    /\ UNCHANGED inverterVars
    /\ UNCHANGED delVars

----------------------------------------------------------------------------
(* TeslaEv.__del__, run when main is left: after charge_loop returns (line   *)
(* 367) or when an exception escapes it. The model lets the destructor run   *)
(* on every way out, which is the most the interpreter ever does.            *)

RunEnded == pc \in {"exited", "crashed"}

\* lines 90-92: STOP_CHARGE is accepted, or command raises VehicleError, which
\* ends __del__ there (the interpreter drops an exception raised in __del__)
DelStopCharge ==
    /\ RunEnded
    /\ del_pc = "idle"
    /\ \/ /\ del_cmds' = Append(del_cmds, StopCharge)
          /\ del_pc' = "close"
       \/ /\ del_pc' = "done"
          /\ UNCHANGED del_cmds
    /\ UNCHANGED <<pc, tesla_client, cmds, outcome, failStreak, pollsSince>>
    /\ UNCHANGED loopVars
    /\ UNCHANGED inverterVars
    /\ UNCHANGED frameVars

\* lines 96-98
DelClose ==
    /\ RunEnded
    /\ del_pc = "close"
    /\ tesla_client' = "closed"
    /\ del_pc' = "done"
    /\ UNCHANGED <<pc, del_cmds, cmds, outcome, failStreak, pollsSince>>
    /\ UNCHANGED loopVars
    /\ UNCHANGED inverterVars
    /\ UNCHANGED frameVars

----------------------------------------------------------------------------

Next ==
    \/ LoopTest
    \/ GetLastPowerData
    \/ GetLastPowerDataFails
    \/ AvailableWatts
    \/ Decide
    \/ GetChargeStateOk
    \/ GetChargeStateHTTPError
    \/ GetChargeStateWakeFails
    \/ GetChargeStateExhausted
    \/ CheckState
    \/ WakeUp
    \/ SetChargingAmps
    \/ StopCommand
    \/ StartCommand
    \/ Select
    \/ Sleep
    \/ DelStopCharge
    \/ DelClose

Spec == Init /\ [][Next]_vars

----------------------------------------------------------------------------
(* report_and_change_charge_rate from line 182 on, entered with any delta    *)
(* and any fetched charge state                                              *)

InitAmps ==
    /\ pc = "check"
    /\ amps_delta \in -MaxDelta..MaxDelta
    /\ charge_state \in ChargeStates
    /\ inverter_power_max = LoopRating
    /\ battery_charging_factor = <<0, 1>>
    /\ last_power = NoPower
    /\ avail = 0
    /\ available_watts_recent = <<>>
    /\ ev_error_count_consecutive = 0
    /\ result = "unset"
    /\ loop_sleep_time = loop_delay_active_charging
    /\ charger_amps_request = 0
    /\ attempts_count = 1
    /\ last_exception = 0
    /\ cmds = <<>>
    /\ outcome = "pending"
    /\ failStreak = 0
    /\ pollsSince = 0
    /\ del_pc = "idle"
    /\ del_cmds = <<>>
    /\ tesla_client = "open"

NextAmps ==
    \/ CheckState
    \/ WakeUp
    \/ SetChargingAmps
    \/ StopCommand
    \/ StartCommand

SpecAmps == InitAmps /\ [][NextAmps]_vars

----------------------------------------------------------------------------
(* available_watts entered with any telemetry, rating and credit factor      *)

WattSteps == {k * inverter_volts : k \in -MaxWattUnits..MaxWattUnits}

\* Scenario A of the specification: feed_in 2000, battery_charging -500, load 1000
ScenarioA == [pbat |-> 500, pmeterL1 |-> -2000, pload |-> 1000]
ScenarioARating == 5 * 1000

WattsTelemetry ==
    [pbat : WattSteps, pmeterL1 : WattSteps, pload : {w \in WattSteps : w >= 0}]
        \cup {ScenarioA}

WattsRatings == {w \in WattSteps : w >= 0} \cup {ScenarioARating}

InitWatts ==
    /\ pc = "compute"
    /\ last_power \in WattsTelemetry
    /\ inverter_power_max \in WattsRatings
    /\ battery_charging_factor \in CreditFactors
    /\ avail = 0
    /\ available_watts_recent = <<>>
    /\ ev_error_count_consecutive = 0
    /\ result = "unset"
    /\ loop_sleep_time = loop_delay_active_charging
    /\ amps_delta = 0
    /\ charge_state = NoChargeState
    /\ charger_amps_request = 0
    /\ attempts_count = 0
    /\ last_exception = 0
    /\ cmds = <<>>
    /\ outcome = "none"
    /\ failStreak = 0
    /\ pollsSince = 0
    /\ del_pc = "idle"
    /\ del_cmds = <<>>
    /\ tesla_client = "open"

NextWatts == AvailableWatts

SpecWatts == InitWatts /\ [][NextWatts]_vars

----------------------------------------------------------------------------
(* Properties of charge_loop, checked under Spec *)

\* C1: once report_and_change_charge_rate has failed on ev_error_count_max
\* consecutive invocations, the loop is past its last poll and last call for good:
\* control is never again at the power-source poll, at the decision or inside a
\* call, and at the loop test the loop condition is false, so the loop exits.
C1_ExitAfterMaxFailures ==
    failStreak >= ev_error_count_max =>
        /\ pc \in {"select", "sleep", "test", "exited", "crashed"}
        /\ (pc = "test" => ~LoopCondition(ev_error_count_consecutive))
        /\ ~ENABLED (GetLastPowerData \/ GetLastPowerDataFails \/ Decide)

C1_Witness ==
    /\ pc = "exited"
    /\ failStreak = ev_error_count_max
    /\ ev_error_count_consecutive = ev_error_count_max
    /\ result \in {"Charging", "Stopped"}

\* C2 (as claimed): a call that fails with VehicleError and leaves the error
\* counter below ev_error_count_max does not end the loop, whatever the last
\* result is; the loop goes on to sleep for the normal active-polling interval.
C2_FailureBelowMaxKeepsLooping ==
    (outcome = "VehicleError" /\ ev_error_count_consecutive < ev_error_count_max) =>
        /\ pc \in {"select", "sleep"}
        /\ (pc = "sleep" => loop_sleep_time = loop_delay_active_charging)

\* C3 (as claimed): when get_charge_state has used up its attempts and raised
\* its last HTTPError, the loop counts one failed attempt (the error counter
\* follows the number of consecutive failed calls) and the run goes on.
C3_ExhaustedFetchIsCounted ==
    outcome = "HTTPError" =>
        /\ pc # "crashed"
        /\ ev_error_count_consecutive = failStreak

\* C4: while the last result is Stopped, report_and_change_charge_rate is only
\* ever running with a delta > 0, and an iteration without a call has issued no
\* remote command.
C4_StoppedNeedsPositiveDelta ==
    /\ (InCall /\ result = "Stopped") => amps_delta > 0
    /\ outcome = "none" => cmds = <<>>

C4_Witness ==
    /\ pc = "select"
    /\ outcome = "none"
    /\ result = "Stopped"
    /\ Len(available_watts_recent) = charging_sample_count
    /\ amps_delta = AmpsDelta(available_watts_recent)
    /\ amps_delta <= 0
    /\ cmds = <<>>

\* the call returned through line 196: readiness passed, the tag is not Charged
\* and the requested current equals the actual one
ReturnedUnchanged ==
    /\ outcome = "return"
    /\ is_able_to_charge(charge_state) = "None"
    /\ charge_state.charging_state # "Charged"
    /\ calculate_charger_amps_request(amps_delta, charge_state)
           = charge_state.charger_actual_current

\* C5 (as claimed): when the requested current equals the actual current the
\* call has issued no remote command at all and returned the fetched tag.
C5_NoCommandWhenUnchanged ==
    ReturnedUnchanged =>
        /\ cmds = <<>>
        /\ result = charge_state.charging_state

\* C5 (amended): when the requested current equals the actual current the call
\* has issued no set-current, start or stop command; the only commands are the
\* wake requests get_charge_state sends after a failed attempt, so fewer than
\* its attempts; and the call returned the fetched tag.
C5_NoRateCommandWhenUnchanged ==
    ReturnedUnchanged =>
        /\ \A i \in DOMAIN cmds : cmds[i] = Wake
        /\ Len(cmds) <= attempts_count - 1
        /\ result = charge_state.charging_state

C5_Witness ==
    /\ ReturnedUnchanged
    /\ cmds = <<Wake>>
    /\ amps_delta # 0
    /\ result = "Charging"

\* C7: the smoothing window never holds more than charging_sample_count
\* samples, and after a call that returned it is empty.
C7_WindowCapacity ==
    /\ Len(available_watts_recent) <= charging_sample_count
    /\ outcome = "return" => available_watts_recent = <<>>

C7_Witness ==
    /\ pc = "select"
    /\ outcome = "return"
    /\ result = "Stopped"
    /\ amps_delta < 0
    /\ attempts_count = attempts_max
    /\ available_watts_recent = <<>>

\* the call returned after line 198: readiness passed, the tag is not Charged
\* and the requested current differs from the actual one
ReturnedChanged ==
    /\ outcome = "return"
    /\ is_able_to_charge(charge_state) = "None"
    /\ charge_state.charging_state # "Charged"
    /\ calculate_charger_amps_request(amps_delta, charge_state)
           # charge_state.charger_actual_current

RetryWakes(n) == [i \in 1..n |-> Wake]

RateCommands(request, actual) ==
    <<Wake, SetAmps(request)>> \o
        (IF request = 0 THEN <<StopCharge>>
         ELSE IF actual = 0 THEN <<StartCharge>>
         ELSE <<>>)

\* C10: a call that changes the rate has issued, after the wake requests of
\* get_charge_state's retries, exactly wake, set-current(requested) and then stop
\* if requested = 0, start if requested > 0 and the actual current was 0,
\* nothing otherwise; it returned Stopped in the first case and Charging in the
\* others; and no call ever issues stop with requested > 0 or start with
\* requested = 0.
C10_CommandOrder ==
    /\ ReturnedChanged =>
          LET request == calculate_charger_amps_request(amps_delta, charge_state)
              actual == charge_state.charger_actual_current
          IN  /\ \E n \in 0..(attempts_count - 1) :
                    cmds = RetryWakes(n) \o RateCommands(request, actual)
              /\ result = IF request = 0 THEN "Stopped" ELSE "Charging"
    /\ \A i \in DOMAIN cmds :
          /\ cmds[i] = StopCharge => charger_amps_request = 0
          /\ cmds[i] = StartCharge =>
                /\ charger_amps_request > 0
                /\ charge_state.charger_actual_current = 0

C10_Witness ==
    /\ ReturnedChanged
    /\ charge_state.charger_actual_current = 0
    /\ cmds = <<Wake, SetAmps(1), StartCharge>>
    /\ result = "Charging"

\* the reason the claim expects for a blocked state: the first failing check
\* in the order thermal precondition, connector latch, connector door
FirstBlockingReason(cs) ==
    CASE cs.not_enough_power_to_heat # "None" ->
            "not_enough_power_to_heat : " \o cs.not_enough_power_to_heat
      [] cs.not_enough_power_to_heat = "None" /\ cs.charge_port_latch # "Engaged" ->
            "charge_port_latch : " \o cs.charge_port_latch
      [] OTHER -> "charge_port_door_open : " \o cs.charge_port_door_open

Blocked(cs) ==
    \/ cs.not_enough_power_to_heat # "None"
    \/ cs.charge_port_latch # "Engaged"
    \/ cs.charge_port_door_open # "True"

\* the call returned through line 184 or line 187
ReturnedBlockedOrCharged ==
    /\ outcome = "return"
    /\ charge_state # NoChargeState
    /\ Blocked(charge_state) \/ charge_state.charging_state = "Charged"

\* C11 (as claimed): a call that finds a blocking flag, or finds the tag
\* Charged after readiness passed, has issued no remote command at all; it
\* returned the first blocking reason, respectively Charged.
C11_NoCommandWhenBlockedOrCharged ==
    ReturnedBlockedOrCharged =>
        /\ cmds = <<>>
        /\ result = IF Blocked(charge_state)
                    THEN FirstBlockingReason(charge_state)
                    ELSE "Charged"

\* C11 (amended): such a call has issued no set-current, start or stop command;
\* the only commands are the wake requests get_charge_state sends after a
\* failed attempt, so fewer than its attempts; and it returned the first
\* blocking reason, respectively Charged.
C11_NoRateCommandWhenBlockedOrCharged ==
    ReturnedBlockedOrCharged =>
        /\ \A i \in DOMAIN cmds : cmds[i] = Wake
        /\ Len(cmds) <= attempts_count - 1
        /\ result = IF Blocked(charge_state)
                    THEN FirstBlockingReason(charge_state)
                    ELSE "Charged"

C11_Witness ==
    /\ ReturnedBlockedOrCharged
    /\ charge_state.charge_port_latch = "Disengaged"
    /\ charge_state.charge_port_door_open = "False"
    /\ result = "charge_port_latch : Disengaged"
    /\ amps_delta > 0
    /\ cmds = <<>>

\* C12 (as claimed): on every way the run ends, once __del__ is through, a stop
\* command has been issued to the vehicle and the session has been closed.
C12_StopThenRelease ==
    del_pc = "done" =>
        /\ del_cmds = <<StopCharge>>
        /\ tesla_client = "closed"

\* C13 (as claimed): a power-source read that fails with data unavailable is
\* one bad sample: the loop is still running and the error counter is what the
\* failed calls made it.
C13_PollFailureIsOneBadSample ==
    outcome = "DataUnavailable" =>
        /\ pc \in {"decide", "select", "sleep", "test", "poll"}
        /\ ev_error_count_consecutive = failStreak

\* C14 (as claimed): in an iteration whose call returned Charging or Stopped
\* the delay slept is the settle interval, which is longer than the normal
\* active-polling interval.
C14_SettleAfterRateChange ==
    (pc = "sleep" /\ outcome = "return" /\ result \in {"Charging", "Stopped"}) =>
        /\ loop_sleep_time = loop_delay_charge_change_settle
        /\ loop_delay_charge_change_settle > loop_delay_active_charging

\* C15 (as claimed): every iteration that ends with result Charged, whether
\* or not its window is full, sleeps the long full-charge recheck interval.
C15_ChargedSleepsLong ==
    (pc = "sleep" /\ result = "Charged") =>
        loop_sleep_time = loop_delay_ev_charged

\* C16 (as claimed): a call that is not the first one runs only when at least
\* charging_sample_count polls were made since the previous call, the window
\* being full of samples gathered since then.
C16_CallsApartByFullWindow ==
    (InCall /\ result # "unset") =>
        /\ Len(available_watts_recent) = charging_sample_count
        /\ pollsSince >= charging_sample_count

\* C16 (amended): a call runs only when the last result is unset or the window
\* is full; a call that follows a call that returned comes at least
\* charging_sample_count polls after it; a call that follows a failed call
\* comes at least one poll after it, the window having been kept.
C16_CallsApartAfterReturn ==
    InCall =>
        /\ result = "unset" \/ Len(available_watts_recent) = charging_sample_count
        /\ (result # "unset" /\ failStreak = 0) => pollsSince >= charging_sample_count
        /\ result # "unset" => pollsSince >= 1

C16_Witness ==
    /\ InCall
    /\ result = "Charging"
    /\ failStreak = 1
    /\ pollsSince = 1
    /\ Len(available_watts_recent) = charging_sample_count

\* C17: once a call has returned anything other than Charging, Stopped or
\* Charged, the loop is at its result test or has left through the break: no
\* poll, no decision and no call can follow, and the error counter, which the
\* return reset, plays no part.
C17_NotChargeableEndsLoop ==
    result \notin {"unset", "Charging", "Stopped", "Charged"} =>
        /\ outcome = "return"
        /\ pc \in {"select", "exited"}
        /\ ev_error_count_consecutive < ev_error_count_max
        /\ ~ENABLED (GetLastPowerData \/ GetLastPowerDataFails \/ Decide
                        \/ GetChargeStateOk \/ Sleep \/ LoopTest)

C17_Witness ==
    /\ pc = "exited"
    /\ outcome = "return"
    /\ result = "charge_port_door_open : False"
    /\ Len(cmds) = 2

\* C18: get_charge_state makes at most attempts_max attempts; once an attempt
\* has succeeded no further attempt is made in that call; while fetching, the
\* only command issued is a wake, one per attempt that failed with 408 and none
\* after 429 or another status; and when attempts_max attempts have failed the
\* call raises the HTTPError of the last one, which happens in no other case.
C18_BoundedFetch ==
    /\ [](attempts_count <= attempts_max)
    /\ [][(pc \in {"check", "wake", "set_amps", "start", "stop"})
             => (attempts_count' = attempts_count)]_vars
    /\ [][(pc = "fetch" /\ pc' = "check")
             => (attempts_count' = attempts_count + 1 /\ cmds' = cmds)]_vars
    /\ [][(pc = "fetch" /\ cmds' # cmds)
             => (/\ last_exception' = 408
                 /\ cmds' = Append(cmds, Wake)
                 /\ attempts_count' = attempts_count + 1)]_vars
    /\ [][(pc = "fetch" /\ attempts_count = attempts_max)
             => (/\ outcome' = "HTTPError"
                 /\ last_exception \in StatusCodes
                 /\ last_exception' = last_exception)]_vars
    /\ [][(outcome # "HTTPError" /\ outcome' = "HTTPError")
             => (pc = "fetch" /\ attempts_count = attempts_max)]_vars

C18_Witness ==
    /\ pc = "check"
    /\ attempts_count = attempts_max
    /\ last_exception = 429
    /\ cmds = <<Wake>>

\* C19 (as claimed): the error counter is always in 0..ev_error_count_max; a
\* call that ends in failure (VehicleError, or the HTTPError of an exhausted
\* fetch) raises the counter by exactly 1 and leaves the window and the last
\* result as they were; a call that returns sets the counter to 0; and an
\* iteration that makes no call leaves counter, last result and window alone.
C19_ErrorCounterFrame ==
    /\ [](ev_error_count_consecutive \in 0..ev_error_count_max)
    /\ [][(outcome = "pending" /\ outcome' \in {"VehicleError", "HTTPError"})
             => (/\ ev_error_count_consecutive' = ev_error_count_consecutive + 1
                 /\ available_watts_recent' = available_watts_recent
                 /\ result' = result)]_vars
    /\ [][(outcome = "pending" /\ outcome' = "return")
             => (ev_error_count_consecutive' = 0)]_vars
    /\ [][(pc = "decide" /\ pc' \in {"select", "sleep"})
             => (/\ ev_error_count_consecutive' = ev_error_count_consecutive
                 /\ available_watts_recent' = available_watts_recent
                 /\ result' = result)]_vars

----------------------------------------------------------------------------
(* Properties of calculate_charger_amps_request, checked under SpecAmps *)

InRange(r, cs) ==
    /\ 0 <= r
    /\ r <= cs.charge_current_request_max
    /\ (r = 0 \/ r >= charge_amps_min)

----------------------------------------------------------------------------
(* Properties of available_watts, checked under SpecWatts *)

\* C8: whatever the telemetry, the rating and the credit factor, the value
\* available_watts returns is never greater than the rating less the load, so
\* added to the load it does not exceed the rating.
C8_RatingBound ==
    pc = "decide" =>
        /\ avail <= inverter_power_max - last_power.pload
        /\ avail + last_power.pload <= inverter_power_max

C8_Witness ==
    /\ pc = "decide"
    /\ last_power.pload > 0
    /\ avail = inverter_power_max - last_power.pload
    /\ avail < -1 * last_power.pmeterL1

Credit(w, factor) == (w * factor[1]) \div factor[2]

\* C9 (as claimed): the battery power counts in full while the battery is
\* charging and at the credit factor while it is discharging, the sum is
\* clamped to rating - load, and Scenario A yields 2000.
C9_DischargeAtCreditFactor ==
    pc = "decide" =>
        LET battery_charging == -1 * last_power.pbat
            feed_in == -1 * last_power.pmeterL1
            raw == IF battery_charging >= 0
                   THEN feed_in + battery_charging
                   ELSE feed_in + Credit(battery_charging, battery_charging_factor)
        IN  /\ avail = Min(raw, inverter_power_max - last_power.pload)
            /\ (/\ last_power = ScenarioA
                /\ inverter_power_max = ScenarioARating
                /\ battery_charging_factor = <<0, 1>>) => avail = 2000

\* C9 (amended): the battery power counts at the credit factor while the
\* battery is charging (pbat <= 0) and in full while it is discharging
\* (pbat > 0), the sum is clamped to rating - load, and Scenario A yields 1500.
C9_ChargeAtCreditFactor ==
    pc = "decide" =>
        LET raw == IF last_power.pbat > 0
                   THEN -1 * last_power.pmeterL1 - last_power.pbat
                   ELSE -1 * last_power.pmeterL1
                            + Credit(-1 * last_power.pbat, battery_charging_factor)
        IN  /\ avail = Min(raw, inverter_power_max - last_power.pload)
            /\ (/\ last_power = ScenarioA
                /\ inverter_power_max = ScenarioARating
                /\ battery_charging_factor = <<0, 1>>) => avail = 1500

C9_Witness ==
    /\ pc = "decide"
    /\ last_power = ScenarioA
    /\ inverter_power_max = ScenarioARating
    /\ battery_charging_factor = <<0, 1>>
    /\ avail = 1500

====
